---------------------------- MODULE Spec2Model ----------------------------
(***************************************************************************)
(* Loan-application lifecycle of FinancialLending: the Express routes of   *)
(* server/routes.ts over the DatabaseStorage of shared/schema.ts (the      *)
(* 7-step variant) and the insert schema of shared/schema.ts.              *)
(*                                                                         *)
(* Request bodies are duck-typed JSON: every body field is a tagged value  *)
(* (undefined, null, number, string, boolean), and the handlers' guards    *)
(* (!x, x < 1, x === 7, x || d) are computed on those tags as JavaScript   *)
(* computes them.                                                          *)
(***************************************************************************)
EXTENDS Integers, Sequences, FiniteSets, TLC

VARIABLES
    apps,      \* the loan_applications table: id -> row
    nextId,    \* the serial sequence behind loan_applications.id
    now,       \* the clock that new Date() and defaultNow() read
    nops,      \* number of requests handled so far
    lastOp,    \* the last request handled: its route, and the HTTP status sent
    statements \* the UPDATE statements of handlers that run concurrently

vars == <<apps, nextId, now, nops, lastOp, statements>>

-----------------------------------------------------------------------------
(* Bounds of the exploration *)

\* requests explored per behaviour
MaxOps == 3

-----------------------------------------------------------------------------
(* JavaScript values *)

Undef == [t |-> "undefined", n |-> 0, s |-> ""]

Null == [t |-> "null", n |-> 0, s |-> ""]

Num(k) == [t |-> "number", n |-> k, s |-> ""]

Str(x) == [t |-> "string", n |-> 0, s |-> x]

Bool(b) == [t |-> "boolean", n |-> IF b THEN 1 ELSE 0, s |-> ""]

\* !v
Falsy(v) ==
    \/ v.t \in {"undefined", "null"}
    \/ v.t = "number" /\ v.n = 0
    \/ v.t = "string" /\ v.s = ""
    \/ v.t = "boolean" /\ v.n = 0

\* a || d
OrElse(v, d) == IF Falsy(v) THEN d ELSE v

\* the decimal strings that occur in the explored requests, with their values
DecimalOf == [x \in {"7"} |-> 7]

\* ToNumber(v) is a number other than NaN
IsNumeric(v) ==
    \/ v.t \in {"number", "boolean", "null"}
    \/ v.t = "string" /\ v.s \in DOMAIN DecimalOf

\* ToNumber(v), for the values where it is not NaN
ToNumber(v) == IF v.t = "string" THEN DecimalOf[v.s] ELSE v.n

\* v < k and v > k against a number k: false when ToNumber(v) is NaN
JsLess(v, k) == IsNumeric(v) /\ ToNumber(v) < k

JsGreater(v, k) == IsNumeric(v) /\ ToNumber(v) > k

\* v === k against a number k
StrictEq(v, k) == v.t = "number" /\ v.n = k

\* `${v}` for a number or a string
Template(v) == IF v.t = "number" THEN ToString(v.n) ELSE v.s

-----------------------------------------------------------------------------
(* shared/schema.ts: the insert schema *)

MinAmount == 500

MaxAmount == 3000

MinDuration == 3

MaxDuration == 12

MinNameLen == 2

MinPhoneLen == 10

\* the strings of the explored requests that zod's email pattern accepts
WellFormedEmails == {"ana@mail.fr"}

\* z.string().min(k)
StringMin(v, k) == v.t = "string" /\ Len(v.s) >= k

\* z.number().min(lo).max(hi)
NumberBetween(v, lo, hi) == v.t = "number" /\ lo <= v.n /\ v.n <= hi

\* z.boolean().refine((val) => val === true)
BooleanTrue(v) == v.t = "boolean" /\ v.n = 1

\* .optional() over a type
OptionalOf(v, type) == v.t = "undefined" \/ v.t = type

\* the schema without the refinement of termsAccepted
SchemaWithoutTermsRefinement(body) ==
    /\ NumberBetween(body.amount, MinAmount, MaxAmount)
    /\ NumberBetween(body.duration, MinDuration, MaxDuration)
    /\ StringMin(body.purpose, 1)
    /\ body.monthlyPayment.t = "string"
    /\ body.totalCost.t = "string"
    /\ StringMin(body.firstName, MinNameLen)
    /\ StringMin(body.lastName, MinNameLen)
    /\ body.email.t = "string" /\ body.email.s \in WellFormedEmails
    /\ StringMin(body.phone, MinPhoneLen)
    /\ StringMin(body.dateOfBirth, 1)
    /\ StringMin(body.employmentStatus, 1)
    /\ StringMin(body.monthlyIncome, 1)
    /\ OptionalOf(body.monthlyExpenses, "number")
    /\ OptionalOf(body.status, "string")
    /\ body.termsAccepted.t = "boolean"
    /\ BooleanTrue(body.creditCheckAccepted)
    /\ OptionalOf(body.marketingAccepted, "boolean")

\* insertLoanApplicationSchema.parse(body) does not throw a ZodError
insertLoanApplicationSchema(body) ==
    /\ NumberBetween(body.amount, MinAmount, MaxAmount)
    /\ NumberBetween(body.duration, MinDuration, MaxDuration)
    /\ StringMin(body.purpose, 1)
    /\ body.monthlyPayment.t = "string"
    /\ body.totalCost.t = "string"
    /\ StringMin(body.firstName, MinNameLen)
    /\ StringMin(body.lastName, MinNameLen)
    /\ body.email.t = "string" /\ body.email.s \in WellFormedEmails
    /\ StringMin(body.phone, MinPhoneLen)
    /\ StringMin(body.dateOfBirth, 1)
    /\ StringMin(body.employmentStatus, 1)
    /\ StringMin(body.monthlyIncome, 1)
    /\ OptionalOf(body.monthlyExpenses, "number")
    /\ OptionalOf(body.status, "string")
    /\ BooleanTrue(body.termsAccepted)
    /\ BooleanTrue(body.creditCheckAccepted)
    /\ OptionalOf(body.marketingAccepted, "boolean")

-----------------------------------------------------------------------------
(* shared/schema.ts: the loan_applications table and DatabaseStorage *)

StepCount == 7

Steps == 1..StepCount

\* the columns the step methods write that the table of schema.ts does not
\* declare: a fresh row has none of them set
LifecycleDefaults(t) ==
    [currentStep |-> 0,
     stepCompletedAt |-> [k \in Steps |-> Null],
     lenderId |-> Null,
     lenderName |-> Null,
     lenderResponse |-> Null,
     lenderMessage |-> Null,
     accountNumber |-> Null,
     updatedAt |-> Num(t)]

\* the object createLoanApplication hands to insert().values()
createLoanApplication(insertApplication) ==
    [insertApplication EXCEPT
        !.monthlyPayment = OrElse(insertApplication.monthlyPayment, Str("0")),
        !.totalCost = OrElse(insertApplication.totalCost, Str("0")),
        !.monthlyExpenses = OrElse(insertApplication.monthlyExpenses, Null),
        !.marketingAccepted = OrElse(insertApplication.marketingAccepted, Bool(FALSE))]

\* the row INSERT ... RETURNING makes of the values: serial id, status default
\* "pending", created_at default now()
InsertRow(values, id, t) ==
    [id |-> id,
     amount |-> values.amount.n,
     duration |-> values.duration.n,
     purpose |-> values.purpose.s,
     monthlyPayment |-> values.monthlyPayment.s,
     totalCost |-> values.totalCost.s,
     firstName |-> values.firstName.s,
     lastName |-> values.lastName.s,
     email |-> values.email.s,
     phone |-> values.phone.s,
     dateOfBirth |-> values.dateOfBirth.s,
     employmentStatus |-> values.employmentStatus.s,
     monthlyIncome |-> values.monthlyIncome.s,
     monthlyExpenses |-> values.monthlyExpenses,
     status |-> IF values.status.t = "undefined" THEN "pending" ELSE values.status.s,
     createdAt |-> Num(t),
     termsAccepted |-> values.termsAccepted.n = 1,
     creditCheckAccepted |-> values.creditCheckAccepted.n = 1,
     marketingAccepted |-> values.marketingAccepted.n = 1]
    @@ LifecycleDefaults(t)

\* the status written without the branch of step 7
AdvanceStatusWithoutCompleted(step) == "step" \o Template(step)

\* the status advanceApplicationStep writes
AdvanceStatus(step) ==
    IF StrictEq(step, StepCount) THEN "completed" ELSE "step" \o Template(step)

\* the timestamps written if every step up to `step` were stamped
AdvanceStampsUpTo(stamps, step, t) ==
    [k \in Steps |-> IF k <= ToNumber(step) THEN Num(t) ELSE stamps[k]]

\* the completion timestamps after advanceApplicationStep: the one of `step`
\* is overwritten with new Date()
AdvanceStamps(stamps, step, t) ==
    [k \in Steps |-> IF StrictEq(step, k) THEN Num(t) ELSE stamps[k]]

\* an advance that also restarts the age of the application
advanceApplicationStepFromNow(row, step, t) ==
    [row EXCEPT
        !.currentStep = ToNumber(step),
        !.status = AdvanceStatus(step),
        !.createdAt = Num(t),
        !.updatedAt = Num(t),
        !.stepCompletedAt = AdvanceStamps(row.stepCompletedAt, step, t)]

advanceApplicationStep(row, step, t) ==
    [row EXCEPT
        !.currentStep = ToNumber(step),
        !.status = AdvanceStatus(step),
        !.updatedAt = Num(t),
        !.stepCompletedAt = AdvanceStamps(row.stepCompletedAt, step, t)]

\* a status update that also makes an approved or rejected status the
\* lender's response
updateLoanApplicationStatusAndResponse(row, status, t) ==
    [row EXCEPT
        !.status = status.s,
        !.lenderResponse = IF status.s \in {"approved", "rejected"} THEN status ELSE @,
        !.updatedAt = Num(t)]

updateLoanApplicationStatus(row, status, t) ==
    [row EXCEPT !.status = status.s, !.updatedAt = Num(t)]

\* server/storage.ts, the module the routes import as "./storage", holds a
\* second updateLoanApplicationStatus: it writes the status alone
updateLoanApplicationStatus_storage(row, status) ==
    [row EXCEPT !.status = status.s]

\* an assignment that also clears the answer of the previous lender
assignLenderClearingResponse(row, lenderId, lenderName, t) ==
    [row EXCEPT
        !.lenderId = lenderId, !.lenderName = lenderName,
        !.lenderResponse = Null, !.lenderMessage = Null,
        !.updatedAt = Num(t)]

assignLenderToApplication(row, lenderId, lenderName, t) ==
    [row EXCEPT !.lenderId = lenderId, !.lenderName = lenderName, !.updatedAt = Num(t)]

\* an update that also makes the lender's decision the status
updateLenderResponseAndStatus(row, response, message, t) ==
    [row EXCEPT
        !.lenderResponse = response,
        !.lenderMessage = OrElse(message, Null),
        !.status = response.s,
        !.updatedAt = Num(t)]

\* an update that leaves the stored message alone when it is given none
updateLenderResponseKeepingMessage(row, response, message, t) ==
    [row EXCEPT
        !.lenderResponse = response,
        !.lenderMessage = IF Falsy(message) THEN @ ELSE message,
        !.updatedAt = Num(t)]

updateLenderResponse(row, response, message, t) ==
    [row EXCEPT
        !.lenderResponse = response,
        !.lenderMessage = OrElse(message, Null),
        !.updatedAt = Num(t)]

\* an issuance that also closes the application
setAccountNumberAndComplete(row, accountNumber, t) ==
    [row EXCEPT
        !.accountNumber = accountNumber, !.status = "completed", !.updatedAt = Num(t)]

setAccountNumber(row, accountNumber, t) ==
    [row EXCEPT !.accountNumber = accountNumber, !.updatedAt = Num(t)]

-----------------------------------------------------------------------------
(* server/routes.ts: the loan calculation *)

(* The handler computes  amount * r * (1+r)^n / ((1+r)^n - 1)  with r = 0.05/12, *)
(* that is  amount * 241^n / (240 * (241^n - 240^n)),  and rounds the payment   *)
(* and n times the payment to cents. The powers exceed the machine integers of  *)
(* the checker, so naturals are sequences of base-1000 digits, lowest first.    *)
(* The value is the exact one of the formula; on every amount in 500..3000 and  *)
(* duration in 3..12 the double arithmetic of the handler rounds to the same    *)
(* cent.                                                                        *)

RECURSIVE BigTimes(_, _, _)
\* x * k + carry
BigTimes(x, k, carry) ==
    IF x = <<>>
    THEN IF carry = 0 THEN <<>> ELSE <<carry % 1000>> \o BigTimes(<<>>, k, carry \div 1000)
    ELSE <<(Head(x) * k + carry) % 1000>>
         \o BigTimes(Tail(x), k, (Head(x) * k + carry) \div 1000)

RECURSIVE BigPlus(_, _, _)
\* x + y + carry
BigPlus(x, y, carry) ==
    IF x = <<>> /\ y = <<>>
    THEN IF carry = 0 THEN <<>> ELSE <<carry>>
    ELSE LET a == IF x = <<>> THEN 0 ELSE Head(x)
             b == IF y = <<>> THEN 0 ELSE Head(y)
         IN <<(a + b + carry) % 1000>>
            \o BigPlus(IF x = <<>> THEN <<>> ELSE Tail(x),
                       IF y = <<>> THEN <<>> ELSE Tail(y),
                       (a + b + carry) \div 1000)

RECURSIVE BigMinus(_, _, _)
\* x - y - borrow, for x >= y + borrow
BigMinus(x, y, borrow) ==
    IF x = <<>>
    THEN <<>>
    ELSE LET b == (IF y = <<>> THEN 0 ELSE Head(y)) + borrow
         IN <<(Head(x) - b) % 1000>>
            \o BigMinus(Tail(x), IF y = <<>> THEN <<>> ELSE Tail(y),
                        IF Head(x) < b THEN 1 ELSE 0)

RECURSIVE BigCompare(_, _)
\* -1, 0 or 1 as x < y, x = y or x > y
BigCompare(x, y) ==
    IF x = <<>> /\ y = <<>>
    THEN 0
    ELSE LET a == IF x = <<>> THEN 0 ELSE Head(x)
             b == IF y = <<>> THEN 0 ELSE Head(y)
             high == BigCompare(IF x = <<>> THEN <<>> ELSE Tail(x),
                                IF y = <<>> THEN <<>> ELSE Tail(y))
         IN IF high # 0 THEN high ELSE IF a < b THEN -1 ELSE IF a > b THEN 1 ELSE 0

RECURSIVE BigPower(_, _)
\* b^n
BigPower(b, n) == IF n = 0 THEN <<1>> ELSE BigTimes(BigPower(b, n - 1), b, 0)

RECURSIVE BigQuotient(_, _, _, _)
\* the q in lo..hi with q * y <= x < (q + 1) * y
BigQuotient(x, y, lo, hi) ==
    IF lo = hi
    THEN lo
    ELSE LET mid == (lo + hi + 1) \div 2
         IN IF BigCompare(BigTimes(y, mid, 0), x) <= 0
            THEN BigQuotient(x, y, mid, hi)
            ELSE BigQuotient(x, y, lo, mid - 1)

\* the cents cut off instead of rounded
TruncatedCents(amount, k, n) ==
    LET growth == BigPower(241, n)
        divisor == BigTimes(BigMinus(growth, BigPower(240, n), 0), 240, 0)
        whole == BigTimes(BigTimes(BigTimes(growth, 100, 0), amount, 0), k, 0)
    IN BigQuotient(whole, divisor, 0, 100 * amount * k)

\* Math.round(100 * amount * k * 241^n / (240 * (241^n - 240^n))): cents, halves up
RoundedCents(amount, k, n) ==
    LET growth == BigPower(241, n)
        divisor == BigTimes(BigMinus(growth, BigPower(240, n), 0), 240, 0)
        twice == BigTimes(BigTimes(BigTimes(growth, 200, 0), amount, 0), k, 0)
    IN BigQuotient(BigPlus(twice, divisor, 0), BigTimes(divisor, 2, 0), 0, 100 * amount * k)

\* the figures of a loan without interest
calculateLoanWithoutInterest(amount, duration) ==
    [monthlyPayment |-> (200 * amount + duration) \div (2 * duration),
     totalCost |-> 100 * amount]

\* the figures of POST /api/calculate-loan, in cents
calculateLoan(amount, duration) ==
    [monthlyPayment |-> RoundedCents(amount, 1, duration),
     totalCost |-> RoundedCents(amount, duration, duration)]

\* Number.prototype.toString of a number of cents / 100: no trailing zeros
NumberToString(cents) ==
    LET units == ToString(cents \div 100)
        frac == cents % 100
    IN IF frac = 0 THEN units
       ELSE IF frac % 10 = 0 THEN units \o "." \o ToString(frac \div 10)
       ELSE IF frac < 10 THEN units \o ".0" \o ToString(frac)
       ELSE units \o "." \o ToString(frac)

-----------------------------------------------------------------------------
(* The requests explored *)

\* a submission the insert schema accepts, as the form of the client sends it
BaseBody ==
    [amount |-> Num(1500),
     duration |-> Num(6),
     purpose |-> Str("travaux"),
     monthlyPayment |-> Str(NumberToString(calculateLoan(1500, 6).monthlyPayment)),
     totalCost |-> Str(NumberToString(calculateLoan(1500, 6).totalCost)),
     firstName |-> Str("Ana"),
     lastName |-> Str("Diop"),
     email |-> Str("ana@mail.fr"),
     phone |-> Str("0612345678"),
     dateOfBirth |-> Str("1990-01-01"),
     employmentStatus |-> Str("cdi"),
     monthlyIncome |-> Str("2000-3000"),
     monthlyExpenses |-> Undef,
     status |-> Undef,
     termsAccepted |-> Bool(TRUE),
     creditCheckAccepted |-> Bool(TRUE),
     marketingAccepted |-> Undef]

\* a submission at the lower bounds, with the optional figures left empty
SmallestBody ==
    [BaseBody EXCEPT
        !.amount = Num(MinAmount), !.duration = Num(MinDuration),
        !.monthlyPayment = Str(""), !.totalCost = Str(""),
        !.monthlyExpenses = Num(0), !.marketingAccepted = Bool(FALSE)]

\* a submission at the upper bounds, with figures that are not the calculator's
LargestBody ==
    [BaseBody EXCEPT
        !.amount = Num(MaxAmount), !.duration = Num(MaxDuration),
        !.monthlyPayment = Str("1.00"), !.totalCost = Str("1.00"),
        !.monthlyExpenses = Num(250), !.marketingAccepted = Bool(TRUE)]

\* the base submission with keys of the lifecycle, which the schema does not
\* declare: parsing drops them
StrayKeysBody ==
    BaseBody @@ [currentStep |-> Num(StepCount),
                 lenderId |-> Str(""),
                 lenderName |-> Str(""),
                 lenderResponse |-> Str("maybe"),
                 lenderMessage |-> Str(""),
                 accountNumber |-> Str(""),
                 updatedAt |-> Num(0)]

\* the submissions the schema accepts
ValidBodies ==
    {BaseBody, SmallestBody, LargestBody, StrayKeysBody,
     [BaseBody EXCEPT !.status = Str("completed")],
     [BaseBody EXCEPT !.status = Str("archived")]}

\* the base submission with one field the schema refuses
InvalidBodies ==
    {[BaseBody EXCEPT !.amount = v] :
        v \in {Num(MinAmount - 1), Num(MaxAmount + 1), Str("1500"), Undef}}
    \cup {[BaseBody EXCEPT !.duration = v] :
        v \in {Num(MinDuration - 1), Num(MaxDuration + 1), Undef}}
    \cup {[BaseBody EXCEPT !.termsAccepted = v] : v \in {Bool(FALSE), Undef}}
    \cup {[BaseBody EXCEPT !.creditCheckAccepted = v] : v \in {Bool(FALSE), Undef}}
    \cup {[BaseBody EXCEPT !.purpose = Str("")],
          [BaseBody EXCEPT !.monthlyPayment = Undef],
          [BaseBody EXCEPT !.totalCost = Num(1521)],
          [BaseBody EXCEPT !.firstName = Str("A")],
          [BaseBody EXCEPT !.lastName = Undef],
          [BaseBody EXCEPT !.email = Str("ana.mail.fr")],
          [BaseBody EXCEPT !.phone = Str("0612")],
          [BaseBody EXCEPT !.dateOfBirth = Str("")],
          [BaseBody EXCEPT !.employmentStatus = Undef],
          [BaseBody EXCEPT !.monthlyIncome = Str("")],
          [BaseBody EXCEPT !.monthlyExpenses = Str("250")],
          [BaseBody EXCEPT !.marketingAccepted = Num(1)],
          [BaseBody EXCEPT !.status = Num(1)],
          [BaseBody EXCEPT !.termsAccepted = Bool(FALSE), !.status = Str("completed")]}

Bodies == ValidBodies \cup InvalidBodies

\* req.body.step
StepInputs == {Num(k) : k \in (-1)..(StepCount + 1)} \cup {Undef, Str("7")}

\* req.body.lenderId
LenderIdInputs == {Undef, Str(""), Str("L1"), Str("L2")}

\* req.body.lenderName
LenderNameInputs == {Undef, Str(""), Str("Banque A")}

\* req.body.response
ResponseInputs ==
    {Undef, Str(""), Str("maybe"), Str("Approved"), Str("approved"), Str("rejected")}

\* req.body.message
MessageInputs == {Undef, Str(""), Str("congrats")}

\* req.body.accountNumber
AccountInputs == {Undef, Str(""), Str("FR76"), Str("FR77")}

\* req.body.status
StatusInputs ==
    {Undef, Str(""), Str("pending"), Str("approved"), Str("rejected"),
     Str("completed"), Str("step1"), Str("step3"), Str("step7")}

\* req.params.id: the ids issued so far and the next one, not issued yet
RequestIds == 1..nextId

-----------------------------------------------------------------------------
(* server/routes.ts: the handlers *)

Reply(op, code) == [op |-> op, code |-> code]

\* one more request is handled, and answered with `code`. Requests are served
\* one after the other, each at a later instant of the clock than the one before.
Handled(op, code) ==
    /\ nops < MaxOps
    /\ nops' = nops + 1
    /\ now' = now + 1
    /\ lastOp' = Reply(op, code)
    /\ UNCHANGED statements

\* the handler sent `code` and wrote nothing
Refuse(op, code) ==
    /\ Handled(op, code)
    /\ UNCHANGED <<apps, nextId>>

\* an update whose WHERE matches the row and those created after it
UpdateRowAndLater(op, id, row) ==
    IF id \in DOMAIN apps
    THEN /\ Handled(op, 200)
         /\ apps' = [i \in DOMAIN apps |->
                       IF i = id THEN row
                       ELSE IF i > id THEN [apps[i] EXCEPT !.updatedAt = row.updatedAt]
                       ELSE apps[i]]
         /\ UNCHANGED nextId
    ELSE Refuse(op, 404)

\* an update that inserts the row when no row matches
UpdateOrInsertRow(op, id, row) ==
    /\ Handled(op, 200)
    /\ apps' = (id :> row) @@ apps
    /\ UNCHANGED nextId

\* db.update(...).where(eq(id)).returning(): the row `id` becomes `row`, or no
\* row matches and the handler answers 404
UpdateRow(op, id, row) ==
    IF id \in DOMAIN apps
    THEN /\ Handled(op, 200)
         /\ apps' = [apps EXCEPT ![id] = row]
         /\ UNCHANGED nextId
    ELSE Refuse(op, 404)

\* POST /api/loan-applications
PostApplication(session, body) ==
    IF ~session
    THEN Refuse("create", 401)
    ELSE IF ~insertLoanApplicationSchema(body)
    THEN Refuse("create", 400)
    ELSE /\ Handled("create", 200)
         /\ apps' = apps @@ (nextId :> InsertRow(createLoanApplication(body), nextId, now))
         /\ nextId' = nextId + 1

\* the guard with its upper limit off by one
InvalidStepAboveEight(step) ==
    Falsy(step) \/ JsLess(step, 1) \/ JsGreater(step, StepCount + 1)

\* the guard of PATCH .../advance
InvalidStep(step) == Falsy(step) \/ JsLess(step, 1) \/ JsGreater(step, StepCount)

\* an advance route that accepts the step after the current one and no other
PatchAdvanceNextStepOnly(id, step) ==
    IF InvalidStep(step)
          \/ (id \in DOMAIN apps /\ ToNumber(step) # apps[id].currentStep + 1)
    THEN Refuse("advance", 400)
    ELSE UpdateRow("advance", id,
                   IF id \in DOMAIN apps
                   THEN advanceApplicationStep(apps[id], step, now) ELSE Null)

\* PATCH /api/loan-applications/:id/advance
PatchAdvance(id, step) ==
    IF InvalidStep(step)
    THEN Refuse("advance", 400)
    ELSE UpdateRow("advance", id,
                   IF id \in DOMAIN apps
                   THEN advanceApplicationStep(apps[id], step, now) ELSE Null)

\* PATCH /api/loan-applications/:id/assign-lender
PatchAssignLender(id, lenderId, lenderName) ==
    IF Falsy(lenderId) \/ Falsy(lenderName)
    THEN Refuse("assignLender", 400)
    ELSE UpdateRow("assignLender", id,
                   IF id \in DOMAIN apps
                   THEN assignLenderToApplication(apps[id], lenderId, lenderName, now)
                   ELSE Null)

\* a guard that refuses only a missing or empty response
InvalidResponseOnlyMissing(response) == Falsy(response)

\* the guard of PATCH .../lender-response
InvalidResponse(response) ==
    Falsy(response) \/ response \notin {Str("approved"), Str("rejected")}

\* the route refusing a missing response only
PatchLenderResponseAnyText(id, response, message) ==
    IF Falsy(response)
    THEN Refuse("lenderResponse", 400)
    ELSE UpdateRow("lenderResponse", id,
                   IF id \in DOMAIN apps
                   THEN updateLenderResponse(apps[id], response, message, now)
                   ELSE Null)

\* PATCH /api/loan-applications/:id/lender-response
PatchLenderResponse(id, response, message) ==
    IF InvalidResponse(response)
    THEN Refuse("lenderResponse", 400)
    ELSE UpdateRow("lenderResponse", id,
                   IF id \in DOMAIN apps
                   THEN updateLenderResponse(apps[id], response, message, now)
                   ELSE Null)

\* the route without its guard
PatchAccountUnchecked(id, accountNumber) ==
    UpdateRow("account", id,
              IF id \in DOMAIN apps
              THEN setAccountNumber(apps[id], accountNumber, now) ELSE Null)

\* PATCH /api/loan-applications/:id/account
PatchAccount(id, accountNumber) ==
    IF Falsy(accountNumber)
    THEN Refuse("account", 400)
    ELSE UpdateRow("account", id,
                   IF id \in DOMAIN apps
                   THEN setAccountNumber(apps[id], accountNumber, now) ELSE Null)

\* a guard that lets the final status through as well
InvalidStatusButCompleted(status) ==
    Falsy(status)
    \/ status \notin {Str("pending"), Str("approved"), Str("rejected"), Str("completed")}

\* the guard of PATCH .../status
InvalidStatus(status) ==
    Falsy(status) \/ status \notin {Str("pending"), Str("approved"), Str("rejected")}

\* PATCH /api/loan-applications/:id/status. The repository holds two
\* implementations of the storage method the route calls; the step is either.
PatchStatus(id, status) ==
    IF InvalidStatus(status)
    THEN Refuse("status", 400)
    ELSE \/ UpdateRow("status", id,
                      IF id \in DOMAIN apps
                      THEN updateLoanApplicationStatus(apps[id], status, now) ELSE Null)
         \/ UpdateRow("status", id,
                      IF id \in DOMAIN apps
                      THEN updateLoanApplicationStatus_storage(apps[id], status) ELSE Null)

-----------------------------------------------------------------------------
(* server/routes.ts: the read routes and the quote *)

\* a reply that carries a JSON body
Answer(op, code, body) == [op |-> op, code |-> code, body |-> body]

\* one more request is handled and answered with a body; nothing is written
Serve(op, code, body) ==
    /\ nops < MaxOps
    /\ nops' = nops + 1
    /\ now' = now + 1
    /\ lastOp' = Answer(op, code, body)
    /\ UNCHANGED <<apps, nextId, statements>>

\* a lookup that hides the applications that are completed
getLoanApplicationInProgress(id) ==
    IF id \in DOMAIN apps /\ apps[id].status # "completed" THEN apps[id] ELSE Undef

\* select().from(loanApplications).where(eq(id)): the row, or undefined
getLoanApplication(id) == IF id \in DOMAIN apps THEN apps[id] ELSE Undef

\* select().from(loanApplications): every row
getAllLoanApplications == {apps[id] : id \in DOMAIN apps}

\* a lookup that records the visit on the row
GetApplicationTouching(id) ==
    /\ Handled("get", IF id \in DOMAIN apps THEN 200 ELSE 404)
    /\ apps' = [i \in DOMAIN apps |->
                  IF i = id THEN [apps[i] EXCEPT !.updatedAt = Num(now)] ELSE apps[i]]
    /\ UNCHANGED nextId

\* GET /api/loan-applications/:id
GetApplication(id) ==
    LET application == getLoanApplication(id)
    IN IF application = Undef
       THEN Refuse("get", 404)
       ELSE Serve("get", 200, application)

\* GET /api/loan-applications: the caller's applications. The storage method
\* the handler calls, getLoanApplicationsByUserId, is in neither storage
\* module: the call throws and the handler answers 500, or, where the method
\* exists, it answers with a listing. The listing itself is not kept.
GetMyApplications(session) ==
    IF ~session
    THEN Refuse("listMine", 401)
    ELSE \/ Refuse("listMine", 500)
         \/ Refuse("listMine", 200)

\* GET /api/admin/loan-applications: the body is the array of the rows, kept
\* here as the one field of a record
GetAllApplications == Serve("listAll", 200, [rows |-> getAllLoanApplications])

\* the guard of POST /api/calculate-loan
InvalidLoanParameters(amount, duration) ==
    \/ Falsy(amount) \/ Falsy(duration)
    \/ JsLess(amount, 500) \/ JsGreater(amount, 3000)
    \/ JsLess(duration, 3) \/ JsGreater(duration, 12)

\* the figures computed once for the whole amounts and durations of QuoteInputs
QuoteMemo ==
    [a \in {MinAmount, 1500, MaxAmount}, d \in {MinDuration, 6, 7, MaxDuration} |->
        calculateLoan(a, d)]

\* the two rounded figures as JSON: numbers of cents, or null for NaN, which
\* is what the arithmetic gives on a text that is not a number
QuoteFigures(amount, duration) ==
    IF ~(IsNumeric(amount) /\ IsNumeric(duration))
    THEN [monthlyPayment |-> Null, totalCost |-> Null]
    ELSE IF <<ToNumber(amount), ToNumber(duration)>> \in DOMAIN QuoteMemo
    THEN QuoteMemo[ToNumber(amount), ToNumber(duration)]
    ELSE calculateLoan(ToNumber(amount), ToNumber(duration))

\* the status and the body POST /api/calculate-loan answers with; interestRate
\* is in hundredths
CalculateLoanReply(amount, duration) ==
    IF InvalidLoanParameters(amount, duration)
    THEN [code |-> 400, body |-> Null]
    ELSE LET figures == QuoteFigures(amount, duration)
         IN [code |-> 200,
             body |-> [amount |-> amount,
                       duration |-> duration,
                       monthlyPayment |-> figures.monthlyPayment,
                       totalCost |-> figures.totalCost,
                       interestRate |-> 5]]

\* POST /api/calculate-loan
PostCalculateLoan(amount, duration) ==
    LET reply == CalculateLoanReply(amount, duration)
    IN Serve("calculate", reply.code, reply.body)

\* req.body.amount and req.body.duration of the quote requests explored
QuoteAmountInputs ==
    {Undef, Num(0), Num(MinAmount - 1), Num(MinAmount), Num(1500), Num(MaxAmount),
     Num(MaxAmount + 1), Str("abc")}

QuoteDurationInputs ==
    {Undef, Num(MinDuration - 1), Num(MinDuration), Num(6), Num(MaxDuration),
     Num(MaxDuration + 1), Str("7")}

-----------------------------------------------------------------------------
(* The system *)

Init ==
    /\ apps = <<>>
    /\ nextId = 1
    /\ now = 0
    /\ nops = 0
    /\ lastOp = Reply("none", 0)
    /\ statements = {}

Create ==
    \E session \in BOOLEAN, body \in Bodies :
        PostApplication(session, body)

Advance ==
    \E id \in RequestIds, step \in StepInputs :
        PatchAdvance(id, step)

AssignLender ==
    \E id \in RequestIds, lenderId \in LenderIdInputs, lenderName \in LenderNameInputs :
        PatchAssignLender(id, lenderId, lenderName)

LenderResponse ==
    \E id \in RequestIds, response \in ResponseInputs, message \in MessageInputs :
        PatchLenderResponse(id, response, message)

Account ==
    \E id \in RequestIds, accountNumber \in AccountInputs :
        PatchAccount(id, accountNumber)

Status ==
    \E id \in RequestIds, status \in StatusInputs :
        PatchStatus(id, status)

Next ==
    \/ Create
    \/ Advance
    \/ AssignLender
    \/ LenderResponse
    \/ Account
    \/ Status

Spec == Init /\ [][Next]_vars

-----------------------------------------------------------------------------
(* The system with its read routes *)

GetOne ==
    \E id \in RequestIds : GetApplication(id)

ListMine ==
    \E session \in BOOLEAN : GetMyApplications(session)

ListAll == GetAllApplications

Calculate ==
    \E amount \in QuoteAmountInputs, duration \in QuoteDurationInputs :
        PostCalculateLoan(amount, duration)

NextReads ==
    \/ Next
    \/ GetOne
    \/ ListMine
    \/ ListAll
    \/ Calculate

SpecReads == Init /\ [][NextReads]_vars

-----------------------------------------------------------------------------
(* The quote alone, over every whole amount and duration in range *)

\* a quote request has arrived for some amount and duration in range; lastOp
\* holds the request until it is answered
InitQuote ==
    /\ apps = <<>>
    /\ nextId = 1
    /\ now = 0
    /\ nops = 0
    /\ statements = {}
    /\ \E amount \in MinAmount..MaxAmount, duration \in MinDuration..MaxDuration :
          lastOp = Answer("request", 0, [amount |-> Num(amount), duration |-> Num(duration)])

Quote ==
    /\ lastOp.op = "request"
    /\ PostCalculateLoan(lastOp.body.amount, lastOp.body.duration)

NextQuote == Quote

SpecQuote == InitQuote /\ [][NextQuote]_vars

-----------------------------------------------------------------------------
(* The system with update handlers that overlap *)

(* An update handler checks its body, builds its UPDATE and awaits the       *)
(* database; other handlers run meanwhile. A statement holds the route, the   *)
(* id, the two values of the body, the instant new Date() gave the handler,   *)
(* and the status the handler answered with once the database has executed    *)
(* the statement (0 while it awaits).                                         *)

Statement(op, id, first, second, t, code) ==
    [op |-> op, id |-> id, first |-> first, second |-> second, t |-> t, code |-> code]

\* the guard of the route `op` on the two values of its body
InvalidBody(op, first, second) ==
    CASE op = "advance" -> InvalidStep(first)
      [] op = "assignLender" -> Falsy(first) \/ Falsy(second)
      [] op = "lenderResponse" -> InvalidResponse(first)
      [] op = "account" -> Falsy(first)
      [] op = "status" -> InvalidStatus(first)

\* the storage method behind the route of a statement, on the row it finds;
\* for the status route `second` tells which of the two implementations runs
Write(stmt, row) ==
    CASE stmt.op = "advance" -> advanceApplicationStep(row, stmt.first, stmt.t)
      [] stmt.op = "assignLender" ->
            assignLenderToApplication(row, stmt.first, stmt.second, stmt.t)
      [] stmt.op = "lenderResponse" ->
            updateLenderResponse(row, stmt.first, stmt.second, stmt.t)
      [] stmt.op = "account" -> setAccountNumber(row, stmt.first, stmt.t)
      [] stmt.op = "status" ->
            IF stmt.second = Bool(TRUE)
            THEN updateLoanApplicationStatus(row, stmt.first, stmt.t)
            ELSE updateLoanApplicationStatus_storage(row, stmt.first)

\* an UPDATE that sets every lifecycle column, those the handler did not
\* mention to their defaults
ExecuteSettingEveryColumn(stmt, row) ==
    Write(stmt, [f \in DOMAIN row |->
                    IF f \in DOMAIN LifecycleDefaults(0) \ {"updatedAt"}
                    THEN LifecycleDefaults(0)[f] ELSE row[f]])

\* db.update(loanApplications).set(...).where(eq(id)).returning(): one
\* statement, executed by the database in one piece on the row as it is then
ExecuteStatement(stmt, row) == Write(stmt, row)

\* the bodies of the update routes explored when handlers overlap: route,
\* first and second value
UpdateBodies ==
    {<<"advance", step, Undef>> : step \in {Num(0), Num(3), Num(StepCount)}}
    \cup {<<"assignLender", Str("L1"), Str("Banque A")>>}
    \cup {<<"lenderResponse", Str("approved"), Str("congrats")>>,
          <<"lenderResponse", Str("rejected"), Undef>>}
    \cup {<<"account", Str("FR76"), Undef>>}
    \cup {<<"status", Str("approved"), Bool(b)>> : b \in BOOLEAN}

\* a handler runs up to its await: it refuses the body, or sends its UPDATE
SendUpdate(op, id, first, second) ==
    IF InvalidBody(op, first, second)
    THEN Refuse(op, 400)
    ELSE /\ nops < MaxOps
         /\ nops' = nops + 1
         /\ now' = now + 1
         /\ statements' = statements \cup {Statement(op, id, first, second, now, 0)}
         /\ UNCHANGED <<apps, nextId, lastOp>>

\* the database executes a statement and the handler that awaits it answers
SettleUpdate(stmt) ==
    /\ stmt.code = 0
    /\ IF stmt.id \in DOMAIN apps
       THEN /\ apps' = [apps EXCEPT ![stmt.id] = ExecuteStatement(stmt, apps[stmt.id])]
            /\ lastOp' = Reply(stmt.op, 200)
       ELSE /\ apps' = apps
            /\ lastOp' = Reply(stmt.op, 404)
    /\ statements' = (statements \ {stmt}) \cup {[stmt EXCEPT !.code = lastOp'.code]}
    /\ UNCHANGED <<nextId, now, nops>>

\* the form of the client submits an application
Submit == PostApplication(TRUE, BaseBody)

Send ==
    \E id \in RequestIds, body \in UpdateBodies :
        SendUpdate(body[1], id, body[2], body[3])

Settle ==
    \E stmt \in statements : SettleUpdate(stmt)

NextRace ==
    \/ Submit
    \/ Send
    \/ Settle

SpecRace == Init /\ [][NextRace]_vars

-----------------------------------------------------------------------------
(* Properties of step advancement *)

\* the labels "step<s>" of the step sequence
StepLabels == <<"step1", "step2", "step3", "step4", "step5", "step6", "step7">>

\* C1: on an existing application, in whatever state it is, the request
\* advance(id, 7) leaves the row with status "completed", currentStep 7 and a
\* step-7 completion timestamp.
C1_AdvanceToSevenCompletes ==
    [][\A id \in DOMAIN apps :
         PatchAdvance(id, Num(7)) =>
            /\ lastOp' = Reply("advance", 200)
            /\ apps'[id].status = "completed"
            /\ apps'[id].currentStep = 7
            /\ apps'[id].stepCompletedAt[7] # Null]_vars

\* an application that was at another step, now completed by advance(id, 7)
C1_Witness ==
    /\ lastOp = Reply("advance", 200)
    /\ \E id \in DOMAIN apps :
         /\ apps[id].status = "completed"
         /\ apps[id].currentStep = 7
         /\ apps[id].stepCompletedAt[7] = apps[id].updatedAt
         /\ \E k \in 1..6 : apps[id].stepCompletedAt[k] # Null

\* C2: on an existing application, advance(id, s) with 1 <= s <= 6 leaves the row
\* with currentStep s, status "step<s>" and the timestamp of step s set to the
\* time of the call, and writes no other step timestamp.
C2_AdvanceStampsItsStep ==
    [][\A id \in DOMAIN apps : \A s \in 1..6 :
         PatchAdvance(id, Num(s)) =>
            /\ lastOp' = Reply("advance", 200)
            /\ apps'[id].currentStep = s
            /\ apps'[id].status = StepLabels[s]
            /\ apps'[id].stepCompletedAt[s] = Num(now)
            /\ \A k \in Steps \ {s} :
                 apps'[id].stepCompletedAt[k] = apps[id].stepCompletedAt[k]]_vars

\* an application advanced to step 2 after another step had been stamped
C2_Witness ==
    /\ lastOp = Reply("advance", 200)
    /\ \E id \in DOMAIN apps :
         /\ apps[id].status = "step2"
         /\ apps[id].currentStep = 2
         /\ apps[id].stepCompletedAt[2] = apps[id].updatedAt
         /\ \E k \in Steps \ {2} :
              /\ apps[id].stepCompletedAt[k] # Null
              /\ apps[id].stepCompletedAt[k] # apps[id].stepCompletedAt[2]

\* the steps outside 1..7: a number below 1 or above 7, or no step at all
StepsOutOfRange == {Num(-1), Num(0), Num(8), Undef}

\* C3: advance(id, step) with step outside 1..7 or missing is answered 400 and
\* changes no row, whether or not the id exists.
C3_InvalidStepRefused ==
    [][\A id \in RequestIds : \A step \in StepsOutOfRange :
         PatchAdvance(id, step) =>
            /\ lastOp' = Reply("advance", 400)
            /\ apps' = apps]_vars

\* an advance request was refused with 400 while applications are stored
C3_Witness ==
    /\ lastOp = Reply("advance", 400)
    /\ apps # <<>>

\* C4: every updating request with valid arguments on an id that was never
\* issued is answered 404, creates no row and leaves every row unchanged.
C4_UnknownIdNotFound ==
    [][\A id \in RequestIds \ DOMAIN apps :
         /\ \A s \in Steps :
              PatchAdvance(id, Num(s)) =>
                 lastOp' = Reply("advance", 404) /\ apps' = apps
         /\ PatchAssignLender(id, Str("L1"), Str("Banque A")) =>
                 lastOp' = Reply("assignLender", 404) /\ apps' = apps
         /\ \A r \in {"approved", "rejected"} :
              PatchLenderResponse(id, Str(r), Str("congrats")) =>
                 lastOp' = Reply("lenderResponse", 404) /\ apps' = apps
         /\ PatchAccount(id, Str("FR76")) =>
                 lastOp' = Reply("account", 404) /\ apps' = apps
         /\ \A st \in {"pending", "approved", "rejected"} :
              PatchStatus(id, Str(st)) =>
                 lastOp' = Reply("status", 404) /\ apps' = apps]_vars

\* every updating route has answered 404 at some point while a row was stored:
\* here the advance route
C4_Witness ==
    /\ lastOp = Reply("advance", 404)
    /\ apps # <<>>
    /\ nextId \notin DOMAIN apps

\* C5: "completed" is reached only by advancement to step 7: whenever a row
\* takes the status "completed" (or is created with it), the request was a
\* successful advance to step 7.
C5_CompletedOnlyByStepSeven ==
    [][\A id \in DOMAIN apps' :
         (/\ apps'[id].status = "completed"
          /\ (id \notin DOMAIN apps \/ apps[id].status # "completed"))
         => (/\ id \in DOMAIN apps
             /\ PatchAdvance(id, Num(7)))]_vars

\* C6: "completed" is terminal: once an application has been completed by
\* advancement to step 7, no request changes its status.
C6_CompletedIsTerminal ==
    [][\A id \in DOMAIN apps :
         (apps[id].status = "completed" /\ apps[id].currentStep = 7)
         => apps'[id].status = "completed"]_vars

\* C7: a step timestamp, once set, keeps its value.
C7_StampSetOnce ==
    [][\A id \in DOMAIN apps : \A k \in Steps :
         apps[id].stepCompletedAt[k] # Null
         => apps'[id].stepCompletedAt[k] = apps[id].stepCompletedAt[k]]_vars

\* C8: the step timestamps that are set are non-decreasing in step order.
C8_StampsOrdered ==
    \A id \in DOMAIN apps : \A i, j \in Steps :
        (/\ i < j
         /\ apps[id].stepCompletedAt[i] # Null
         /\ apps[id].stepCompletedAt[j] # Null)
        => apps[id].stepCompletedAt[i].n <= apps[id].stepCompletedAt[j].n

-----------------------------------------------------------------------------
(* Properties of creation *)

\* C9: a successful create yields a row in the initial state: status
\* "pending", currentStep 0, no step timestamp, lender, lender response or
\* account number, whatever the submission holds.
C9_CreatedPending ==
    [][lastOp' = Reply("create", 200) =>
         /\ apps'[nextId].status = "pending"
         /\ apps'[nextId].currentStep = 0
         /\ \A k \in Steps : apps'[nextId].stepCompletedAt[k] = Null
         /\ apps'[nextId].lenderId = Null
         /\ apps'[nextId].lenderName = Null
         /\ apps'[nextId].lenderResponse = Null
         /\ apps'[nextId].accountNumber = Null]_vars

\* the fields a submission must hold
RequiredFields ==
    {"amount", "duration", "purpose", "monthlyPayment", "totalCost", "firstName",
     "lastName", "email", "phone", "dateOfBirth", "employmentStatus", "monthlyIncome",
     "termsAccepted", "creditCheckAccepted"}

\* the input is valid in the sense of the claim: amount in 500..3000, duration
\* in 3..12, the required fields present, both consents true
ValidInput(body) ==
    /\ \A f \in RequiredFields : body[f] # Undef
    /\ body.amount.t = "number" /\ body.amount.n \in 500..3000
    /\ body.duration.t = "number" /\ body.duration.n \in 3..12
    /\ body.termsAccepted = Bool(TRUE)
    /\ body.creditCheckAccepted = Bool(TRUE)

\* C10: a create whose input is not valid is refused (400 for a caller with a
\* session) and stores nothing; every stored application has its amount in
\* 500..3000, its duration in 3..12 and both consents true.
C10_CreateOnlyValid ==
    [][/\ \A session \in BOOLEAN, body \in Bodies :
            (PostApplication(session, body) /\ ~ValidInput(body)) =>
               /\ apps' = apps
               /\ lastOp' = Reply("create", IF session THEN 400 ELSE 401)
       /\ \A id \in DOMAIN apps' :
            /\ apps'[id].amount \in 500..3000
            /\ apps'[id].duration \in 3..12
            /\ apps'[id].termsAccepted
            /\ apps'[id].creditCheckAccepted]_vars

\* a create was refused with 400 while applications created at both bounds
\* are stored
C10_Witness ==
    /\ lastOp = Reply("create", 400)
    /\ \E id \in DOMAIN apps : apps[id].amount = 500 /\ apps[id].duration = 3
    /\ \E id \in DOMAIN apps : apps[id].amount = 3000 /\ apps[id].duration = 12

\* C11: after every successful create the stored (and returned) monthlyPayment
\* and totalCost are the figures the server's calculator gives for the row's
\* amount and duration, whatever figures the submission holds.
C11_CreateStoresCalculatorFigures ==
    [][lastOp' = Reply("create", 200) =>
         LET row == apps'[nextId]
             figures == calculateLoan(row.amount, row.duration)
         IN /\ row.monthlyPayment = NumberToString(figures.monthlyPayment)
            /\ row.totalCost = NumberToString(figures.totalCost)]_vars

\* C12: a lender response that is not exactly "approved" or "rejected" (another
\* word, another spelling, empty, missing) is refused with 400 and every stored
\* application is left as it was.
C12_InvalidResponseRefused ==
    [][\A id \in RequestIds, message \in MessageInputs,
          response \in ResponseInputs \ {Str("approved"), Str("rejected")} :
            PatchLenderResponse(id, response, message) =>
               /\ lastOp' = Reply("lenderResponse", 400)
               /\ apps' = apps]_vars

\* a lender response was refused while an application is stored
C12_Witness ==
    /\ lastOp = Reply("lenderResponse", 400)
    /\ apps # <<>>

\* the fields of a row that hold its progress through the steps
SameProgress(old, new) ==
    /\ new.status = old.status
    /\ new.currentStep = old.currentStep
    /\ new.stepCompletedAt = old.stepCompletedAt

\* C13 as stated: a successful recordLenderResponse stores lenderResponse =
\* response and lenderMessage = message (unset when no message is given), and
\* leaves status, currentStep, the step timestamps, lenderId, lenderName and
\* accountNumber of the record unchanged.
C13_ResponseStoresMessage ==
    [][\A id \in DOMAIN apps, response \in ResponseInputs, message \in MessageInputs :
            (PatchLenderResponse(id, response, message)
             /\ lastOp' = Reply("lenderResponse", 200)) =>
               /\ apps'[id].lenderResponse = response
               /\ apps'[id].lenderMessage = (IF message = Undef THEN Null ELSE message)
               /\ SameProgress(apps[id], apps'[id])
               /\ apps'[id].lenderId = apps[id].lenderId
               /\ apps'[id].lenderName = apps[id].lenderName
               /\ apps'[id].accountNumber = apps[id].accountNumber]_vars

\* C13, amended: a successful recordLenderResponse stores lenderResponse =
\* response, stores lenderMessage = message when the message is a non-empty
\* text and leaves lenderMessage unset when the message is missing or empty;
\* status, currentStep, the step timestamps, lenderId, lenderName and
\* accountNumber of the record are unchanged.
C13_ResponseStoresNonEmptyMessage ==
    [][\A id \in DOMAIN apps, response \in ResponseInputs, message \in MessageInputs :
            (PatchLenderResponse(id, response, message)
             /\ lastOp' = Reply("lenderResponse", 200)) =>
               /\ apps'[id].lenderResponse = response
               /\ apps'[id].lenderMessage =
                      (IF message \in {Undef, Str("")} THEN Null ELSE message)
               /\ SameProgress(apps[id], apps'[id])
               /\ apps'[id].lenderId = apps[id].lenderId
               /\ apps'[id].lenderName = apps[id].lenderName
               /\ apps'[id].accountNumber = apps[id].accountNumber]_vars

\* a response with its message was recorded on an application that has a
\* lender, an account number and a step behind it
C13_Witness ==
    /\ lastOp = Reply("lenderResponse", 200)
    /\ \E id \in DOMAIN apps :
          /\ apps[id].lenderResponse = Str("approved")
          /\ apps[id].lenderMessage = Str("congrats")
          /\ apps[id].status # "approved"
          /\ \/ apps[id].lenderId # Null
             \/ apps[id].accountNumber # Null
             \/ apps[id].currentStep > 0

\* C14: a successful assignLender sets lenderId and lenderName to the values
\* given and changes neither status, currentStep, the step timestamps,
\* lenderResponse, lenderMessage nor accountNumber of the record.
C14_AssignLenderFrame ==
    [][\A id \in DOMAIN apps, lenderId \in LenderIdInputs, lenderName \in LenderNameInputs :
            (PatchAssignLender(id, lenderId, lenderName)
             /\ lastOp' = Reply("assignLender", 200)) =>
               /\ apps'[id].lenderId = lenderId
               /\ apps'[id].lenderName = lenderName
               /\ SameProgress(apps[id], apps'[id])
               /\ apps'[id].lenderResponse = apps[id].lenderResponse
               /\ apps'[id].lenderMessage = apps[id].lenderMessage
               /\ apps'[id].accountNumber = apps[id].accountNumber]_vars

\* a lender was assigned to an application that already holds a lender's
\* answer with its message
C14_Witness ==
    /\ lastOp = Reply("assignLender", 200)
    /\ \E id \in DOMAIN apps :
          /\ apps[id].lenderId = Str("L1")
          /\ apps[id].lenderName = Str("Banque A")
          /\ apps[id].lenderResponse # Null
          /\ apps[id].lenderMessage # Null

\* C15: assignLender with an empty or missing lenderId or lenderName, and
\* setAccountNumber with an empty or missing accountNumber, are refused with
\* 400 and leave every record as it was; no stored record ever has the empty
\* string as lenderId, lenderName or accountNumber.
C15_EmptyLenderOrAccountRefused ==
    [][/\ \A id \in RequestIds, lenderId \in LenderIdInputs, lenderName \in LenderNameInputs :
            (/\ PatchAssignLender(id, lenderId, lenderName)
             /\ {lenderId, lenderName} \cap {Undef, Str("")} # {}) =>
               /\ lastOp' = Reply("assignLender", 400)
               /\ apps' = apps
       /\ \A id \in RequestIds, accountNumber \in {Undef, Str("")} :
            PatchAccount(id, accountNumber) =>
               /\ lastOp' = Reply("account", 400)
               /\ apps' = apps
       /\ \A id \in DOMAIN apps' :
            /\ apps'[id].lenderId # Str("")
            /\ apps'[id].lenderName # Str("")
            /\ apps'[id].accountNumber # Str("")]_vars

\* an account number was refused on a table where a lender is assigned
C15_Witness ==
    /\ lastOp = Reply("account", 400)
    /\ \E id \in DOMAIN apps : apps[id].lenderId # Null /\ apps[id].accountNumber = Null

\* the lender fields of a row
SameLender(old, new) ==
    /\ new.lenderId = old.lenderId
    /\ new.lenderName = old.lenderName
    /\ new.lenderResponse = old.lenderResponse
    /\ new.lenderMessage = old.lenderMessage

\* C16: a new application has no accountNumber; a successful
\* setAccountNumber(id, n) stores n and changes neither status, currentStep,
\* the step timestamps nor any lender field; and whenever the accountNumber of
\* an application changes, the step is a successful setAccountNumber(id, n)
\* on it and the new value is n. Hence a non-null accountNumber is the n of the
\* latest successful setAccountNumber on the application.
C16_AccountNumberOnlyByIssuance ==
    [][/\ \A id \in DOMAIN apps, n \in AccountInputs :
            (PatchAccount(id, n) /\ lastOp' = Reply("account", 200)) =>
               /\ apps'[id].accountNumber = n
               /\ SameProgress(apps[id], apps'[id])
               /\ SameLender(apps[id], apps'[id])
       /\ \A id \in DOMAIN apps' \ DOMAIN apps : apps'[id].accountNumber = Null
       /\ \A id \in DOMAIN apps :
            apps'[id].accountNumber # apps[id].accountNumber =>
               /\ lastOp' = Reply("account", 200)
               /\ \E n \in AccountInputs \ {Undef, Str("")} :
                     PatchAccount(id, n) /\ apps'[id].accountNumber = n]_vars

\* an account number was issued to an application that has a lender
C16_Witness ==
    /\ lastOp = Reply("account", 200)
    /\ \E id \in DOMAIN apps :
          /\ apps[id].accountNumber = Str("FR77")
          /\ apps[id].lenderId = Str("L2")
          /\ apps[id].status = "pending"

\* C17: setStatus accepts pending, approved and rejected only: any other
\* status ("completed", "step1" .. "step7", empty, missing) is refused with
\* 400 and changes nothing; an accepted call sets the status to the value
\* given and leaves currentStep, the step timestamps, the lender fields and
\* the accountNumber of the record unchanged.
C17_SetStatusAcceptsThree ==
    [][/\ \A id \in RequestIds,
             status \in StatusInputs \ {Str("pending"), Str("approved"), Str("rejected")} :
            PatchStatus(id, status) =>
               /\ lastOp' = Reply("status", 400)
               /\ apps' = apps
       /\ \A id \in DOMAIN apps, status \in StatusInputs :
            (PatchStatus(id, status) /\ lastOp' = Reply("status", 200)) =>
               /\ status \in {Str("pending"), Str("approved"), Str("rejected")}
               /\ apps'[id].status = status.s
               /\ apps'[id].currentStep = apps[id].currentStep
               /\ apps'[id].stepCompletedAt = apps[id].stepCompletedAt
               /\ SameLender(apps[id], apps'[id])
               /\ apps'[id].accountNumber = apps[id].accountNumber]_vars

\* a status was refused on an application whose status an earlier call set
C17_Witness ==
    /\ lastOp = Reply("status", 400)
    /\ \E id \in DOMAIN apps : apps[id].status = "rejected"

\* the statuses of the lifecycle
KnownStatuses ==
    {"pending", "completed", "approved", "rejected"} \cup {StepLabels[k] : k \in Steps}

\* C18: the status of every stored application is one of pending, step1 ..
\* step7, completed, approved, rejected.
C18_StatusInDomain ==
    \A id \in DOMAIN apps : apps[id].status \in KnownStatuses

\* a successful update request on application id
UpdateOf(id) ==
    /\ lastOp'.code = 200
    /\ \/ \E step \in StepInputs : PatchAdvance(id, step)
       \/ \E lenderId \in LenderIdInputs, lenderName \in LenderNameInputs :
             PatchAssignLender(id, lenderId, lenderName)
       \/ \E response \in ResponseInputs, message \in MessageInputs :
             PatchLenderResponse(id, response, message)
       \/ \E accountNumber \in AccountInputs : PatchAccount(id, accountNumber)
       \/ \E status \in StatusInputs : PatchStatus(id, status)

\* C19: after each successful advanceStep, assignLender, recordLenderResponse,
\* setAccountNumber and setStatus the updatedAt of the record is the time of
\* that call, and the updatedAt of a record never decreases.
C19_UpdatedAtBumped ==
    [][\A id \in DOMAIN apps :
          /\ UpdateOf(id) => apps'[id].updatedAt = Num(now)
          /\ apps'[id].updatedAt.n >= apps[id].updatedAt.n]_vars

\* the fields of an application that creation fixes: id and createdAt, the
\* loan terms, the applicant's data and the consent flags
FixedFields ==
    {"id", "createdAt", "amount", "duration", "purpose", "monthlyPayment", "totalCost",
     "firstName", "lastName", "email", "phone", "dateOfBirth", "employmentStatus",
     "monthlyIncome", "monthlyExpenses", "termsAccepted", "creditCheckAccepted",
     "marketingAccepted"}

\* C20: id, createdAt, the loan terms, the applicant fields and the consent
\* flags of an application are those of its creation: no step changes any of
\* them on a stored application.
C20_CreationFieldsFixed ==
    [][\A id \in DOMAIN apps :
          /\ id \in DOMAIN apps'
          /\ \A f \in FixedFields : apps'[id][f] = apps[id][f]]_vars

\* an application created at the upper bounds has since taken a step and
\* been given a lender
C20_Witness ==
    \E id \in DOMAIN apps :
        /\ apps[id].amount = MaxAmount
        /\ apps[id].monthlyPayment = "1.00"
        /\ apps[id].currentStep > 0
        /\ apps[id].lenderId # Null
        /\ apps[id].updatedAt.n > apps[id].createdAt.n

-----------------------------------------------------------------------------
(* Properties of the read routes *)

\* C21: reads are pure. A get, the listing of all applications and the
\* listing of the caller's applications change no stored record; a get of a
\* stored application answers with the record as stored, so that a second get
\* right after the first answers with an identical record.
C21_ReadsArePure ==
    [][/\ \A id \in RequestIds :
            GetApplication(id) =>
               /\ UNCHANGED <<apps, nextId>>
               /\ id \in DOMAIN apps => lastOp' = Answer("get", 200, apps'[id])
       /\ GetAllApplications => UNCHANGED <<apps, nextId>>
       /\ \A session \in BOOLEAN :
            GetMyApplications(session) => UNCHANGED <<apps, nextId>>
       /\ (/\ lastOp.op = "get"
           /\ lastOp.code = 200
           /\ GetApplication(lastOp.body.id)) => lastOp'.body = lastOp.body]_vars

\* a get answered with an application that an update had changed before
C21_Witness ==
    /\ lastOp.op = "get"
    /\ lastOp.code = 200
    /\ lastOp.body.lenderId # Null
    /\ lastOp.body = apps[lastOp.body.id]

\* C22: applications are never deleted. No step removes a stored application,
\* the ids stored are exactly those that create has handed out, a get of a
\* stored id answers 200 with the record of that id, the listing of all
\* applications holds every stored id, and a get of an id that was never
\* created answers 404.
C22_NeverDeleted ==
    [][/\ DOMAIN apps \subseteq DOMAIN apps'
       /\ DOMAIN apps' = 1..(nextId' - 1)
       /\ lastOp' = Reply("create", 200) => nextId \in DOMAIN apps'
       /\ \A id \in RequestIds :
            GetApplication(id) =>
               IF id \in DOMAIN apps
               THEN lastOp'.code = 200 /\ lastOp'.body.id = id
               ELSE lastOp' = Reply("get", 404)
       /\ GetAllApplications =>
            \A id \in DOMAIN apps : \E row \in lastOp'.body.rows : row.id = id]_vars

\* a get answered with an application that had been advanced to its end
C22_Witness ==
    /\ lastOp.op = "get"
    /\ lastOp.code = 200
    /\ lastOp.body.status = "completed"
    /\ lastOp.body.currentStep = StepCount

-----------------------------------------------------------------------------
(* Properties of overlapping updates *)

\* the row as its creation left it
CreatedRow(id) == InsertRow(createLoanApplication(BaseBody), id, apps[id].createdAt.n)

RECURSIVE SerialResults(_, _)
\* the rows that the updates of S, made one after the other in some order,
\* leave of `row`
SerialResults(row, S) ==
    IF S = {}
    THEN {row}
    ELSE UNION {SerialResults(Write(stmt, row), S \ {stmt}) : stmt \in S}

\* the updates that have been made on application id
UpdatesMade(id) == {stmt \in statements : stmt.id = id /\ stmt.code = 200}

\* C23: whatever way update handlers on one application overlap, the record
\* is what the updates made on it leave when they are made one after the
\* other in some order; in particular a field that one of them writes keeps
\* what was written whichever of them the database executes last.
C23_OverlappingUpdatesSerialize ==
    \A id \in DOMAIN apps :
        /\ apps[id] \in SerialResults(CreatedRow(id), UpdatesMade(id))
        /\ \A stmt \in UpdatesMade(id) :
              /\ stmt.op = "account" => apps[id].accountNumber # Null
              /\ stmt.op = "assignLender" => apps[id].lenderId # Null
              /\ stmt.op = "lenderResponse" => apps[id].lenderResponse # Null
              /\ stmt.op = "advance" => apps[id].stepCompletedAt[stmt.first.n] # Null

\* two updates that were awaited at the same time have both been made, the
\* later one first
C23_Witness ==
    \E id \in DOMAIN apps : \E a, b \in UpdatesMade(id) :
        /\ a.op = "account" /\ b.op = "advance"
        /\ a.t < b.t
        /\ apps[id].updatedAt = Num(a.t)
        /\ apps[id].accountNumber = Str("FR76")
        /\ apps[id].currentStep = 3

-----------------------------------------------------------------------------
(* Properties of the table as a whole *)

\* the stored applications that a step changes
Changed == {id \in DOMAIN apps : apps'[id] # apps[id]}

\* C24: no operation spans several records. A step changes at most one stored
\* application, the one it changes is the one the update request is addressed
\* to, and a create changes no stored application.
C24_OneRecordPerOperation ==
    [][/\ Cardinality(Changed) <= 1
       /\ \A id \in Changed : UpdateOf(id)
       /\ lastOp'.op = "create" => Changed = {}]_vars

\* of two stored applications the second has been updated, the first is as
\* created
C24_Witness ==
    /\ lastOp = Reply("lenderResponse", 200)
    /\ DOMAIN apps = {1, 2}
    /\ apps[1].lenderResponse = Null /\ apps[1].updatedAt = apps[1].createdAt
    /\ apps[2].lenderResponse # Null /\ apps[2].updatedAt # apps[2].createdAt

-----------------------------------------------------------------------------
(* Properties of the lender's decision *)

\* C25: the lender's decision is terminal: once the lenderResponse of an
\* application is "approved" or "rejected", no step changes or unsets it.
C25_LenderDecisionTerminal ==
    [][\A id \in DOMAIN apps :
          apps[id].lenderResponse \in {Str("approved"), Str("rejected")} =>
             apps'[id].lenderResponse = apps[id].lenderResponse]_vars

\* C26: the lenderResponse of every application is unset, "approved" or
\* "rejected"; a new application has none, and whenever the lenderResponse of
\* an application changes, the step is a successful recordLenderResponse on it.
C26_LenderResponseDomain ==
    [][/\ \A id \in DOMAIN apps' :
            apps'[id].lenderResponse \in {Null, Str("approved"), Str("rejected")}
       /\ \A id \in DOMAIN apps' \ DOMAIN apps : apps'[id].lenderResponse = Null
       /\ \A id \in DOMAIN apps :
            apps'[id].lenderResponse # apps[id].lenderResponse =>
               /\ lastOp' = Reply("lenderResponse", 200)
               /\ \E response \in ResponseInputs, message \in MessageInputs :
                     PatchLenderResponse(id, response, message)]_vars

\* a decision is stored on one application while another, created after it,
\* has none
C26_Witness ==
    /\ \E id \in DOMAIN apps : apps[id].lenderResponse = Str("rejected")
    /\ \E id \in DOMAIN apps : apps[id].lenderResponse = Null
    /\ lastOp = Reply("create", 200)

-----------------------------------------------------------------------------
(* Properties of the quote *)

\* the value is a number, or the text of one, between lo and hi
InRange(v, lo, hi) == IsNumeric(v) /\ ToNumber(v) >= lo /\ ToNumber(v) <= hi

\* C27: the quote route answers 400 to every request whose amount is not in
\* 500..3000 or whose duration is not in 3..12 (a missing one included); to
\* every other request it answers 200 with the amount and the duration of the
\* request and interestRate 0.05; the answer depends on the request alone and
\* no stored state changes.
C27_QuoteRejectsOutOfRange ==
    [][\A amount \in QuoteAmountInputs, duration \in QuoteDurationInputs :
            PostCalculateLoan(amount, duration) =>
               /\ UNCHANGED <<apps, nextId>>
               /\ lastOp' = Answer("calculate", CalculateLoanReply(amount, duration).code,
                                   CalculateLoanReply(amount, duration).body)
               /\ IF InRange(amount, 500, 3000) /\ InRange(duration, 3, 12)
                  THEN /\ lastOp'.code = 200
                       /\ lastOp'.body.amount = amount
                       /\ lastOp'.body.duration = duration
                       /\ lastOp'.body.interestRate = 5
                  ELSE lastOp'.code = 400]_vars

\* the last reply is a quote
Quoted == lastOp.op = "calculate" /\ lastOp.code = 200

\* C28: for every amount in 500..3000 and duration in 3..12 the two rounded
\* figures of the quote satisfy |monthlyPayment * duration - totalCost| < 0.01
\* (less than one cent).
C28_TotalIsPaymentsWithinACent ==
    Quoted =>
        LET gap == lastOp.body.monthlyPayment * lastOp.body.duration.n - lastOp.body.totalCost
        IN gap < 1 /\ gap > -1

\* C29: for every amount in 500..3000 and duration in 3..12 the quote has
\* monthlyPayment > 0, totalCost >= amount and monthlyPayment > amount /
\* duration.
C29_PaymentCoversPrincipal ==
    Quoted =>
        /\ lastOp.body.monthlyPayment > 0
        /\ lastOp.body.totalCost >= 100 * lastOp.body.amount.n
        /\ lastOp.body.monthlyPayment * lastOp.body.duration.n > 100 * lastOp.body.amount.n

\* the quote of the smallest loan over the shortest duration
C29_Witness ==
    /\ Quoted
    /\ lastOp.body.amount = Num(MinAmount) /\ lastOp.body.duration = Num(MinDuration)
    /\ lastOp.body.monthlyPayment = 16806 /\ lastOp.body.totalCost = 50417

\* the last reply is the quote of 1500 over 6 months
QuotedBase == Quoted /\ lastOp.body.amount = Num(1500) /\ lastOp.body.duration = Num(6)

\* C30 as stated: the quote of 1500 over 6 months has monthlyPayment 253.54
\* and totalCost 1521.24.
C30_BaseQuoteAsStated ==
    QuotedBase => lastOp.body.monthlyPayment = 25354 /\ lastOp.body.totalCost = 152124

\* C30, amended: the quote of 1500 over 6 months has monthlyPayment 253.66 and
\* totalCost 1521.95.
C30_BaseQuote ==
    QuotedBase => lastOp.body.monthlyPayment = 25366 /\ lastOp.body.totalCost = 152195

\* the quote of 1500 over 6 months has been answered, at 5%
C30_Witness == QuotedBase /\ lastOp.body.interestRate = 5

-----------------------------------------------------------------------------
(* Properties of the status against the step data *)

\* C31: status and step data are coherent in every state: an application
\* whose status is "completed" has currentStep 7 and a step-7 timestamp; one
\* whose status is "step<k>", k in 1..6, has currentStep k and a step-k
\* timestamp; and no application has the status "step7".
C31_StatusMatchesStep ==
    \A id \in DOMAIN apps :
        /\ apps[id].status = "completed" =>
              /\ apps[id].currentStep = StepCount
              /\ apps[id].stepCompletedAt[StepCount] # Null
        /\ \A k \in 1..(StepCount - 1) :
              apps[id].status = StepLabels[k] =>
                 /\ apps[id].currentStep = k
                 /\ apps[id].stepCompletedAt[k] # Null
        /\ apps[id].status # StepLabels[StepCount]

-----------------------------------------------------------------------------
(* Properties of the lender's decision against the status *)

\* C32: the lender's response and the status are decoupled. Recording a
\* response leaves the status as it was, whatever it was; advancing a step and
\* setting the status leave the lender's response as it was. So an application
\* can hold the response "rejected" under the status "step3", "approved" or
\* "completed".
C32_ResponseAndStatusDecoupled ==
    [][\A id \in DOMAIN apps :
          /\ \A response \in ResponseInputs, message \in MessageInputs :
                PatchLenderResponse(id, response, message) =>
                   apps'[id].status = apps[id].status
          /\ \A step \in StepInputs :
                PatchAdvance(id, step) =>
                   apps'[id].lenderResponse = apps[id].lenderResponse
          /\ \A status \in StatusInputs :
                PatchStatus(id, status) =>
                   apps'[id].lenderResponse = apps[id].lenderResponse]_vars

\* advanceStep(id, 3) followed by recordLenderResponse(id, "rejected"): the
\* application is rejected by its lender and still at step 3
C32_Witness ==
    /\ lastOp = Reply("lenderResponse", 200)
    /\ \E id \in DOMAIN apps :
          /\ apps[id].lenderResponse = Str("rejected")
          /\ apps[id].status = StepLabels[3]
          /\ apps[id].currentStep = 3

\* C33: a successful recordLenderResponse without a message, or with an empty
\* one, leaves lenderMessage unset, whatever message an earlier
\* recordLenderResponse stored on the application.
C33_NoMessageClearsMessage ==
    [][\A id \in DOMAIN apps, response \in ResponseInputs :
          \A message \in {Undef, Str("")} :
             (PatchLenderResponse(id, response, message)
              /\ lastOp' = Reply("lenderResponse", 200)) =>
                /\ apps'[id].lenderMessage = Null
                /\ apps'[id].lenderResponse = response]_vars

\* a response without a message has just been recorded on an application:
\* the row holds the response and no message
C33_Witness ==
    /\ lastOp = Reply("lenderResponse", 200)
    /\ \E id \in DOMAIN apps :
          /\ apps[id].lenderResponse = Str("rejected")
          /\ apps[id].lenderMessage = Null
          /\ apps[id].updatedAt = Num(now - 1)
          /\ apps[id].updatedAt # apps[id].createdAt

-----------------------------------------------------------------------------
(* Properties of the order of the steps *)

\* C34: step advancement is not monotonic. On an existing application,
\* advance(id, s) succeeds for every s in 1..7 whatever the currentStep of the
\* row, and leaves currentStep = s: below the former currentStep when s is
\* smaller (a regression), and, when s is larger than currentStep + 1 (a skip),
\* with the timestamps of the steps in between as they were while the
\* timestamp of s is set.
C34_AdvanceAnyStepFromAnyStep ==
    [][\A id \in DOMAIN apps : \A s \in Steps :
         PatchAdvance(id, Num(s)) =>
            /\ lastOp' = Reply("advance", 200)
            /\ apps'[id].currentStep = s
            /\ s < apps[id].currentStep => apps'[id].currentStep < apps[id].currentStep
            /\ apps'[id].stepCompletedAt[s] # Null
            /\ \A k \in (apps[id].currentStep + 1)..(s - 1) :
                 apps'[id].stepCompletedAt[k] = apps[id].stepCompletedAt[k]]_vars

\* an application was advanced to step 5 from no step, then back to step 2:
\* its currentStep is 2, step 5 has the earlier timestamp, steps 1, 3 and 4
\* have none
C34_Witness ==
    /\ lastOp = Reply("advance", 200)
    /\ \E id \in DOMAIN apps :
          /\ apps[id].currentStep = 2
          /\ apps[id].status = StepLabels[2]
          /\ apps[id].stepCompletedAt[5] # Null
          /\ apps[id].stepCompletedAt[2] # Null
          /\ apps[id].stepCompletedAt[5].n < apps[id].stepCompletedAt[2].n
          /\ \A k \in {1, 3, 4} : apps[id].stepCompletedAt[k] = Null

=============================================================================
